---------------------------- MODULE Spec2Model ----------------------------
(***************************************************************************)
(* A model of scraper.py (Blip.kr schedule scraper v4): the payload        *)
(* decoder, the scheduleId object extractor, the title classifier, the     *)
(* per-month aggregator and the whole-run driver.                          *)
(*                                                                         *)
(* Each component has its own specification over the variables it uses;    *)
(* the variables of the other components stay at their idle value.         *)
(***************************************************************************)
EXTENDS Integers, Sequences, FiniteSets, TLC

VARIABLES
    chunk,        \* decode_rsc_chunk: the argument, a sequence of characters
    decoded,      \* decode_rsc_chunk: the value returned (Pending before the call)
    raw,          \* extract_rsc_events: the decoded chunk text, a sequence of tokens
    pos,          \* extract_rsc_events: scan position, in characters
    events,       \* extract_rsc_events: the objects appended so far
    status,       \* extract_rsc_events: "scan" | "returned" | "raised"
    event,        \* classify_event: the argument, [title, typeId]
    category,     \* classify_event: the value returned ("pending" before the call)
    year,         \* parse_events_to_dict, scrape_schedule: year
    month,        \* parse_events_to_dict, scrape_schedule: month
    result,       \* parse_events_to_dict: result
    cur,          \* parse_events_to_dict: the event of the last pass of the for loop
    nparsed,      \* parse_events_to_dict: passes of the for loop made
    pc,           \* scrape_schedule, main: the place of the run
    today,        \* scrape_schedule: today, [y, mo, d]
    end_year,     \* scrape_schedule: end_year
    end_month,    \* scrape_schedule: end_month
    unit_map,     \* scrape_schedule: unit_map, a function of the unit ids
    all_events,   \* scrape_schedule: all_events, the items in insertion order
    total_months, \* scrape_schedule: total_months
    attempted,    \* scrape_schedule: the months of the progress lines printed (line 472)
    run_events,   \* events the pages of this run have carried so far
    data,         \* main: data, the document scrape_schedule returned
    written       \* save_json: the document written to schedule.json

\* Values that are no text: a call not made yet, a component not in use.
Pending == <<"PENDING">>
Idle == <<"IDLE">>

decodeVars == <<chunk, decoded>>
extractVars == <<raw, pos, events, status>>
classifyVars == <<event, category>>
parseVars == <<year, month, result, cur, nparsed>>
driverVars ==
    <<pc, today, end_year, end_month, unit_map, all_events, total_months, attempted,
      run_events, data, written>>
vars == <<chunk, decoded, raw, pos, events, status, event, category,
          year, month, result, cur, nparsed,
          pc, today, end_year, end_month, unit_map, all_events, total_months,
          attempted, run_events, data, written>>

IdleDecode == chunk = Idle /\ decoded = Idle
IdleExtract == raw = Idle /\ pos = 0 /\ events = <<>> /\ status = "idle"
IdleClassify == event = [title |-> <<>>, typeId |-> 0] /\ category = "idle"
IdleParse == year = 0 /\ month = 0 /\ result = <<>> /\ cur = <<>> /\ nparsed = 0
IdleDriver ==
    /\ pc = "idle" /\ today = <<>> /\ end_year = 0 /\ end_month = 0
    /\ unit_map = <<>> /\ all_events = <<>>
    /\ total_months = 0 /\ attempted = <<>> /\ run_events = 0
    /\ data = <<>> /\ written = <<>>

\* All sequences over S of length 0..n.
SeqsUpTo(S, n) == UNION {[1..k -> S] : k \in 0..n}

Min(a, b) == IF a <= b THEN a ELSE b

(***************************************************************************)
(* decode_rsc_chunk.  A text is a sequence of characters; the characters   *)
(* that matter to the four replace() calls are named:                      *)
(*   BSL  backslash        QUO  double quote      LF   line feed           *)
(*   NUL  the character \x00     "n" "B" "S"  the letters                   *)
(***************************************************************************)
DecodeChars == {"BSL", "QUO", "n", "NUL", "B", "S"}

\* Longest chunk drawn as input of decode_rsc_chunk.
MaxChunkLen == 4

\* The placeholder "\x00BS\x00" of lines 162 and 165.
Placeholder == <<"NUL", "B", "S", "NUL">>

\* str.replace(old, new): every non-overlapping occurrence, left to right.
RECURSIVE Replace(_, _, _)
Replace(s, old, new) ==
    IF Len(s) < Len(old) THEN s
    ELSE IF SubSeq(s, 1, Len(old)) = old
         THEN new \o Replace(SubSeq(s, Len(old) + 1, Len(s)), old, new)
         ELSE <<Head(s)>> \o Replace(Tail(s), old, new)

decode_rsc_chunk(c) ==
    LET r1 == Replace(c, <<"BSL", "BSL">>, Placeholder)
        r2 == Replace(r1, <<"BSL", "QUO">>, <<"QUO">>)
        r3 == Replace(r2, <<"BSL", "n">>, <<"LF">>)
    IN  Replace(r3, Placeholder, <<"BSL">>)

InitDecode ==
    /\ chunk \in SeqsUpTo(DecodeChars, MaxChunkLen)
    /\ decoded = Pending
    /\ IdleExtract
    /\ IdleClassify
    /\ IdleParse
    /\ IdleDriver

\* The call decode_rsc_chunk(chunk).
Decode ==
    /\ decoded = Pending
    /\ decoded' = decode_rsc_chunk(chunk)
    /\ UNCHANGED <<chunk, extractVars, classifyVars, parseVars, driverVars>>

\* The decoder applied to text that is already decoded (its own output).
DecodeAgain ==
    /\ decoded # Pending
    /\ decoded # chunk
    /\ Len(decoded) <= MaxChunkLen
    /\ chunk' = decoded
    /\ decoded' = Pending
    /\ UNCHANGED <<extractVars, classifyVars, parseVars, driverVars>>

NextDecode == Decode \/ DecodeAgain

SpecDecode == InitDecode /\ [][NextDecode]_vars

\* A text with no escape sequence: no backslash starts one.
NoEscape(s) == \A i \in 1..Len(s) : s[i] # "BSL"

\* C10: decode_rsc_chunk returns its input unchanged for every text that
\* contains no escape sequence (so decoding such text again changes nothing).
C10_DecodeIdentityOnEscapeFree ==
    (decoded # Pending /\ NoEscape(chunk)) => decoded = chunk

(***************************************************************************)
(* extract_rsc_events.  The decoded chunk is a sequence of tokens, each a  *)
(* fixed piece of text, and positions are counted in characters as in the  *)
(* code (Width).  The tokens:                                              *)
(*   "{"  "}"   the braces                                                 *)
(*   "s"   "scheduleId":1          so "{" then "s" starts with the marker  *)
(*   "k"   ,"k":                   a key, to be followed by a value        *)
(*   "m"   ,"message":"            the message key and its opening quote   *)
(*   "q"   "                       a double quote                          *)
(*   "d"   ,"n":<4301 digits>      a member whose value is an integer      *)
(*                                 literal longer than int() converts      *)
(* and, only produced by the message substitution, "bad": what is left of  *)
(* a token whose first quote the substitution consumed.                    *)
(***************************************************************************)
Tokens == {"{", "}", "s", "k", "m", "q", "d"}

\* Longest decoded chunk drawn as input of the scan loop, in tokens.
MaxTextLen == 7

\* The scan window of line 261.
ScanWindow == 10000

Width(t) ==
    CASE t = "s" -> 14
      [] t = "k" -> 5
      [] t = "m" -> 12
      [] t = "d" -> 4306
      [] OTHER -> 1

\* Tokens whose text holds a double quote.
HasQuote(t) == t \in {"s", "k", "m", "q", "d", "bad"}

\* Number of characters of the tokens text[1..n].
RECURSIVE CharLen(_, _)
CharLen(text, n) == IF n = 0 THEN 0 ELSE CharLen(text, n - 1) + Width(text[n])

\* Character offset (from 0) at which token i starts.
CharPos(text, i) == CharLen(text, i - 1)

\* Token i starts an occurrence of the marker '{"scheduleId"'.
MarkerAt(text, i) == i + 1 <= Len(text) /\ text[i] = "{" /\ text[i + 1] = "s"

Markers(text) == {i \in 1..Len(text) : MarkerAt(text, i)}

\* raw.find('{"scheduleId"', p): the token index of the first occurrence that
\* starts at character p or later; 0 when there is none (find returns -1).
Find(text, p) ==
    LET hits == {i \in Markers(text) : CharPos(text, i) >= p}
    IN  IF hits = {} THEN 0 ELSE CHOOSE i \in hits : \A j \in hits : i <= j

\* Lines 259-268: the brace-depth scan from token i on.  Only characters below
\* obj_start + 10000 are examined; the result is the index of the token whose
\* "}" brings the depth back to 0, or 0 when the loop ends without a break.
RECURSIVE DepthScan(_, _, _, _)
DepthScan(text, j, depth, limit) ==
    IF j > Len(text) \/ CharPos(text, j) >= limit THEN 0
    ELSE LET d == IF text[j] = "{" THEN depth + 1
                  ELSE IF text[j] = "}" THEN depth - 1 ELSE depth
         IN  IF d = 0 THEN j ELSE DepthScan(text, j + 1, d, limit)

ObjEndToken(text, i) ==
    DepthScan(text, i, 0, Min(CharPos(text, i) + ScanWindow, CharLen(text, Len(text))))

\* obj_end, in characters: one past the closing brace, or obj_start.
ObjEnd(text, i) ==
    LET e == ObjEndToken(text, i)
    IN  IF e = 0 THEN CharPos(text, i) ELSE CharPos(text, e) + 1

\* obj_str = raw[obj_start:obj_end].
ObjStr(text, i) ==
    LET e == ObjEndToken(text, i)
    IN  IF e = 0 THEN <<>> ELSE SubSeq(text, i, e)

\* Line 273: re.sub(r'"message":"[^"]*"', '"message":""', obj_str).  After an
\* "m" the class [^"]* takes the braces; a "q" then ends the match; any other
\* token holding a quote ends it with its first quote and is left broken.
RECURSIVE MessageSub(_)
RECURSIVE MessageTail(_, _)
MessageTail(f, j) ==
    IF j > Len(f) THEN <<>>
    ELSE IF f[j] \in {"{", "}"} THEN MessageTail(f, j + 1)
    ELSE IF f[j] = "q" THEN <<"m", "q">> \o MessageSub(SubSeq(f, j + 1, Len(f)))
    ELSE <<"m", "q", "bad">> \o MessageSub(SubSeq(f, j + 1, Len(f)))
MessageSub(f) ==
    IF f = <<>> THEN <<>>
    ELSE IF Head(f) = "m"
         THEN LET r == MessageTail(f, 2)
              IN  IF r = <<>> THEN f ELSE r
         ELSE <<Head(f)>> \o MessageSub(Tail(f))

\* json.loads on a fragment, read left to right; the result is the outcome and
\* the index of the first token not consumed.
Ok(i) == [st |-> "ok", i |-> i]
Fail(e) == [st |-> e, i |-> 0]

\* The rest of a string after its opening quote.
RECURSIVE ParseStr(_, _)
ParseStr(f, i) ==
    IF i > Len(f) THEN Fail("JSONDecodeError")
    ELSE IF f[i] = "q" THEN Ok(i + 1)
    ELSE IF HasQuote(f[i]) THEN Fail("JSONDecodeError")
    ELSE ParseStr(f, i + 1)

RECURSIVE ParseObj(_, _)
RECURSIVE ParseRest(_, _)
RECURSIVE ParseValue(_, _)
ParseValue(f, i) ==
    IF i > Len(f) THEN Fail("JSONDecodeError")
    ELSE IF f[i] = "{" THEN ParseObj(f, i)
    ELSE IF f[i] = "q" THEN ParseStr(f, i + 1)
    ELSE Fail("JSONDecodeError")
\* The members after the first one, up to the closing brace.
ParseRest(f, i) ==
    IF i > Len(f) THEN Fail("JSONDecodeError")
    ELSE IF f[i] = "}" THEN Ok(i + 1)
    ELSE IF f[i] = "d" THEN Fail("ValueError")
    ELSE IF f[i] = "m"
         THEN LET r == ParseStr(f, i + 1)
              IN  IF r.st = "ok" THEN ParseRest(f, r.i) ELSE r
    ELSE IF f[i] = "k"
         THEN LET r == ParseValue(f, i + 1)
              IN  IF r.st = "ok" THEN ParseRest(f, r.i) ELSE r
    ELSE Fail("JSONDecodeError")
ParseObj(f, i) ==
    IF i + 1 > Len(f) THEN Fail("JSONDecodeError")
    ELSE IF f[i + 1] = "}" THEN Ok(i + 2)
    ELSE IF f[i + 1] = "s" THEN ParseRest(f, i + 2)
    ELSE Fail("JSONDecodeError")

\* "ok", "JSONDecodeError" or "ValueError" (raised by the integer conversion).
JsonLoads(f) ==
    IF f = <<>> \/ Head(f) # "{" THEN "JSONDecodeError"
    ELSE LET r == ParseObj(f, 1)
         IN  IF r.st = "ok" /\ r.i # Len(f) + 1 THEN "JSONDecodeError" ELSE r.st

InitExtract ==
    /\ raw \in SeqsUpTo(Tokens, MaxTextLen)
    /\ Markers(raw) # {}
    /\ pos = 0
    /\ events = <<>>
    /\ status = "scan"
    /\ IdleDecode
    /\ IdleClassify
    /\ IdleParse
    /\ IdleDriver

\* One pass of the while loop in which find() returns an index: lines 254-281.
ScanObject ==
    /\ status = "scan"
    /\ Find(raw, pos) # 0
    /\ LET i == Find(raw, pos)
           obj_str == MessageSub(ObjStr(raw, i))
           parsed == JsonLoads(obj_str)
       IN  IF parsed = "ValueError"
           THEN /\ status' = "raised"
                /\ UNCHANGED <<pos, events>>
           ELSE /\ events' = IF parsed = "ok"
                             THEN Append(events, [at |-> CharPos(raw, i), obj |-> obj_str])
                             ELSE events
                /\ pos' = ObjEnd(raw, i) + 1
                /\ UNCHANGED status
    /\ UNCHANGED <<raw, decodeVars, classifyVars, parseVars, driverVars>>

\* The pass in which find() returns -1: the break of line 256, then line 283.
ScanBreak ==
    /\ status = "scan"
    /\ Find(raw, pos) = 0
    /\ status' = "returned"
    /\ UNCHANGED <<raw, pos, events, decodeVars, classifyVars, parseVars, driverVars>>

NextExtract == ScanObject \/ ScanBreak

SpecExtract == InitExtract /\ [][NextExtract]_vars

\* The object a marker starts when its braces are counted without any window:
\* the tokens from i to the "}" that brings the depth back to 0 (<<>> if none).
BalancedObject(text, i) ==
    LET e == DepthScan(text, i, 0, CharLen(text, Len(text)) + 1)
    IN  IF e = 0 THEN <<>> ELSE SubSeq(text, i, e)

\* Every marker of the text starts a brace-balanced object that is valid JSON.
AllMarkersWellFormed(text) ==
    \A i \in Markers(text) : JsonLoads(BalancedObject(text, i)) = "ok"

\* The character positions of the markers, in ascending order.
RECURSIVE MarkerPositions(_, _)
MarkerPositions(text, i) ==
    IF i > Len(text) THEN <<>>
    ELSE IF MarkerAt(text, i)
         THEN <<CharPos(text, i)>> \o MarkerPositions(text, i + 1)
         ELSE MarkerPositions(text, i + 1)

\* C1: when each of the N markers of the text starts a brace-balanced object
\* that is valid JSON, the scan loop returns exactly N objects, one per
\* marker, in the left-to-right order of the markers.
C1_OneObjectPerMarkerInOrder ==
    (status = "returned" /\ AllMarkersWellFormed(raw)) =>
        [n \in 1..Len(events) |-> events[n].at] = MarkerPositions(raw, 1)

\* C6: the scan loop never raises, whatever the text, and never returns more
\* objects than the text has markers.
C6_NeverRaisesAndBounded ==
    /\ status # "raised"
    /\ Len(events) <= Cardinality(Markers(raw))

(***************************************************************************)
(* classify_event.  A title is a sequence of lexemes, each a fixed piece   *)
(* of text; "SP" is one space.  The Korean words of the source are written *)
(* in romanised form with the prefix "ko:" (ko:junyeon is the word for     *)
(* "anniversary (of N years)", ko:wi the rank counter of "1st place").     *)
(* A keyword is a sequence of lexemes and `kw in title` is containment as  *)
(* a contiguous run.  The categories of CATEGORIES, romanised:             *)
(*   chukha celebration    balmae release     peuriodeo preorder           *)
(*   bangsong broadcast    gumae purchase     haengsa event                *)
(*   gita other            SNS                                             *)
(***************************************************************************)
\* event.get("typeId") of an event that has no typeId.
None == 0

\* TYPE_ID_MAP.get(type_id, default).
TypeIdMapGet(type_id, default) ==
    CASE type_id = 2 -> "balmae"
      [] type_id = 4 -> "chukha"
      [] OTHER -> default

\* CATEGORY_KEYWORDS, in the order of the dict literal.
CATEGORY_KEYWORDS == <<
    [category |-> "peuriodeo", keywords |-> <<
        <<"ko:yeyak">>, <<"Pre-order">>, <<"PRE-ORDER">>, <<"PREORDER">>,
        <<"ko:seonjumun">>, <<"[", "PRE-ORDER", "]">>, <<"[", "POB", "]">>,
        <<"2ND", "/", "RE-PRESS", "SP", "PREORDER">>, <<"RE-PRESS">> >>],
    [category |-> "balmae", keywords |-> <<
        <<"Release">>, <<"RELEASE">>, <<"Album">>, <<"ALBUM">>,
        <<"Preview">>, <<"Track">>, <<"Highlight">>, <<"Medley">>,
        <<"Album", "SP", "Preview">>, <<"Album", "SP", "Release">>,
        <<"Pre-release">>, <<"MV", "SP", "Release">> >>],
    [category |-> "bangsong", keywords |-> <<
        <<"ko:ingigayo">>, <<"Inkigayo">>, <<"ko:eumakjungsim">>, <<"MusicCore">>,
        <<"M", "SP", "COUNTDOWN">>, <<"ko:myujikbaengkeu">>, <<"Music", "SP", "Bank">>,
        <<"SHOW", "SP", "CHAMPION">>, <<"ko:eumakbangsong">>, <<"1", "ko:wi">> >>],
    [category |-> "haengsa", keywords |-> <<
        <<"ko:konseoteu">>, <<"Concert">>, <<"CONCERT">>, <<"ko:paenmiting">>,
        <<"Fan", "SP", "Meeting">>, <<"TOUR">>, <<"Tour">>, <<"ko:syokeiseu">>,
        <<"Showcase">>, <<"LIVE">> >>],
    [category |-> "gumae", keywords |-> <<
        <<"ko:gumae">>, <<"Purchase">>, <<"ko:tiket">>, <<"Ticket">>, <<"TICKET">> >>],
    [category |-> "SNS", keywords |-> <<
        <<"V", "SP", "LIVE">>, <<"ko:wi", "ko:beoseu">>, <<"Weverse">>, <<"ko:inseuta">> >>],
    [category |-> "chukha", keywords |-> <<
        <<"HAPPY">>, <<"DAY", "!">>, <<"ko:saengil">>, <<"birthday">>, <<"ko:ginyeomil">>,
        <<"ko:debwi">>, <<"ko:junyeon">>, <<"anniversary">>, <<"ko:susang">> >>] >>

\* kw in title.
Contains(title, kw) ==
    \E i \in 1..(Len(title) - Len(kw) + 1) : SubSeq(title, i, i + Len(kw) - 1) = kw

\* Lexemes that end with a decimal digit.
EndsWithDigit(l) == l \in {"1", "2", "3"}

\* re.search(r'\d+junyeon', title), junyeon being the Korean word.
AnniversaryPattern(title) ==
    \E i \in 2..Len(title) : title[i] = "ko:junyeon" /\ EndsWithDigit(title[i - 1])

\* str.lower() of one lexeme; lexemes without upper-case letters are unchanged.
LowerLexeme(l) ==
    CASE l \in {"ANNIVERSARY", "Anniversary"} -> "anniversary"
      [] l = "Pre-order" -> "pre-order"
      [] l = "Album" -> "album"
      [] l = "Release" -> "release"
      [] l = "LIVE" -> "live"
      [] l = "V" -> "v"
      [] l = "Teaser" -> "teaser"
      [] l = "Concept" -> "concept"
      [] l = "Photo" -> "photo"
      [] l = "Start" -> "start"
      [] l = "New" -> "new"
      [] l = "2ND" -> "2nd"
      [] l = "SPECIAL" -> "special"
      [] OTHER -> l

\* title.lower().
Lower(title) == [i \in 1..Len(title) |-> LowerLexeme(title[i])]

\* Some keyword of the list is in the title.
AnyKeyword(keywords, title) ==
    \E n \in 1..Len(keywords) : Contains(title, keywords[n])

\* Lines 299-302: the loop over CATEGORY_KEYWORDS.items() from entry n on; the
\* category of the first entry with a keyword in the title, NoMatch when the
\* loop ends.
NoMatch == "no match"
RECURSIVE KeywordLoop(_, _)
KeywordLoop(title, n) ==
    IF n > Len(CATEGORY_KEYWORDS) THEN NoMatch
    ELSE IF AnyKeyword(CATEGORY_KEYWORDS[n].keywords, title)
         THEN CATEGORY_KEYWORDS[n].category
         ELSE KeywordLoop(title, n + 1)

\* classify_event with the anniversary rule tried after the keyword table.
classify_event_KeywordsFirst(ev) ==
    IF KeywordLoop(ev.title, 1) # NoMatch THEN KeywordLoop(ev.title, 1)
    ELSE IF AnniversaryPattern(ev.title) \/ Contains(Lower(ev.title), <<"anniversary">>)
         THEN "chukha"
    ELSE IF ev.typeId = 2 THEN "gita"
    ELSE TypeIdMapGet(ev.typeId, "gita")

\* classify_event without the demotion of line 307.
classify_event_NoDemotion(ev) ==
    IF AnniversaryPattern(ev.title) \/ Contains(Lower(ev.title), <<"anniversary">>)
    THEN "chukha"
    ELSE IF KeywordLoop(ev.title, 1) # NoMatch THEN KeywordLoop(ev.title, 1)
    ELSE TypeIdMapGet(ev.typeId, "gita")

classify_event(ev) ==
    LET type_id == ev.typeId
        title == ev.title
    IN  IF AnniversaryPattern(title) \/ Contains(Lower(title), <<"anniversary">>)
        THEN "chukha"
        ELSE IF KeywordLoop(title, 1) # NoMatch THEN KeywordLoop(title, 1)
        ELSE IF type_id = 2 THEN "gita"
        ELSE TypeIdMapGet(type_id, "gita")

\* Lexemes the titles of the events are built from.
TitleLexemes ==
    {"SP", "Pre-order", "Album", "LIVE", "V", "2", "ko:junyeon", "ANNIVERSARY", "Teaser"}

\* Longest title built from TitleLexemes.
MaxTitleLen == 3

\* "Pre-order Start for New Album Release", "2ND ANNIVERSARY SPECIAL" and
\* "Concept Photo Teaser #3".
PreorderReleaseTitle ==
    <<"Pre-order", "SP", "Start", "SP", "for", "SP", "New", "SP", "Album", "SP", "Release">>
AnniversaryTitle == <<"2ND", "SP", "ANNIVERSARY", "SP", "SPECIAL">>
TeaserTitle == <<"Concept", "SP", "Photo", "SP", "Teaser", "SP", "#", "3">>

Titles ==
    SeqsUpTo(TitleLexemes, MaxTitleLen)
        \cup {PreorderReleaseTitle, AnniversaryTitle, TeaserTitle}

TypeIds == {None, 1, 2, 4}

InitClassify ==
    /\ event \in [title : Titles, typeId : TypeIds]
    /\ category = "pending"
    /\ IdleDecode
    /\ IdleExtract
    /\ IdleParse
    /\ IdleDriver

\* The call classify_event(event).
Classify ==
    /\ category = "pending"
    /\ category' = classify_event(event)
    /\ UNCHANGED <<event, decodeVars, extractVars, parseVars, driverVars>>

NextClassify == Classify

SpecClassify == InitClassify /\ [][NextClassify]_vars

\* The title matches the anniversary rule of line 295.
IsAnniversary(title) ==
    \/ \E i \in 2..Len(title) : title[i] = "ko:junyeon" /\ title[i - 1] \in {"1", "2", "3"}
    \/ \E i \in 1..Len(title) : title[i] \in {"anniversary", "Anniversary", "ANNIVERSARY"}

\* The title holds a keyword of the n-th entry of the keyword table.
Matches(title, n) ==
    \E k \in 1..Len(CATEGORY_KEYWORDS[n].keywords) :
        Contains(title, CATEGORY_KEYWORDS[n].keywords[k])

\* C2: an anniversary title is a celebration whatever else it holds and
\* whatever the type code; any other title with keywords of several
\* categories gets the category listed earliest in CATEGORY_KEYWORDS, so
\* "Pre-order Start for New Album Release" is a preorder.
C2_TitlePrecedence ==
    category # "pending" =>
        /\ IsAnniversary(event.title) => category = "chukha"
        /\ \A n \in 1..Len(CATEGORY_KEYWORDS) :
              ( /\ ~IsAnniversary(event.title)
                /\ Matches(event.title, n)
                /\ \A e \in 1..(n - 1) : ~Matches(event.title, e) )
              => category = CATEGORY_KEYWORDS[n].category
        /\ event.title = PreorderReleaseTitle => category = "peuriodeo"

\* Reached: a classified title with a preorder and a release keyword and no
\* anniversary, and a classified anniversary title that also holds a keyword.
C2_Witness ==
    /\ category # "pending"
    /\ \/ /\ Matches(event.title, 1) /\ Matches(event.title, 2)
          /\ ~IsAnniversary(event.title)
          /\ category = "peuriodeo"
       \/ /\ IsAnniversary(event.title) /\ Matches(event.title, 2)
          /\ event.typeId = 2
          /\ category = "chukha"

\* C3 as stated: a release-type event (typeId 2) whose title holds no keyword
\* of the release list is classified "other".
C3_ReleaseTypeWithoutReleaseKeywordIsOther ==
    (category # "pending" /\ event.typeId = 2 /\ ~Matches(event.title, 2))
        => category = "gita"

\* C3 amended: such an event is never classified as a release; it is "other"
\* exactly when its title matches no rule at all, and otherwise gets the
\* category of the rule its title matches.
C3_ReleaseTypeDemoted ==
    (category # "pending" /\ event.typeId = 2 /\ ~Matches(event.title, 2)) =>
        /\ category # "balmae"
        /\ category = "gita" <=>
              /\ ~IsAnniversary(event.title)
              /\ \A n \in 1..Len(CATEGORY_KEYWORDS) : ~Matches(event.title, n)

\* Reached: "Concept Photo Teaser #3" with typeId 2, classified "other".
C3_Witness ==
    /\ event.typeId = 2
    /\ event.title = TeaserTitle
    /\ category = "gita"

(***************************************************************************)
(* parse_events_to_dict.  A start time is missing (absent or ""), garbage  *)
(* (a string fromisoformat rejects) or a UTC time [y, mo, d, h].  A date   *)
(* key is the text strftime("%Y-%m-%d") writes, a sequence of characters.  *)
(* A result is the dict as the sequence of its items in insertion order:   *)
(* [date |-> key, entries |-> the bucket].  An entry is [title, category,  *)
(* unitId], unitId = None standing for an entry without that key.          *)
(***************************************************************************)
IsLeap(y) == (y % 4 = 0 /\ y % 100 # 0) \/ y % 400 = 0

DaysInMonth(y, mo) ==
    IF mo = 2 THEN (IF IsLeap(y) THEN 29 ELSE 28)
    ELSE IF mo \in {4, 6, 9, 11} THEN 30 ELSE 31

\* The day after [y, mo, d].
NextDay(t) ==
    IF t.d < DaysInMonth(t.y, t.mo) THEN [y |-> t.y, mo |-> t.mo, d |-> t.d + 1]
    ELSE IF t.mo < 12 THEN [y |-> t.y, mo |-> t.mo + 1, d |-> 1]
    ELSE [y |-> t.y + 1, mo |-> 1, d |-> 1]

\* The date of utc_dt taken as it is, without the shift to KST.
KstDate_NoShift(t) == [y |-> t.y, mo |-> t.mo, d |-> t.d]

\* Line 384: the date of utc_dt + timedelta(hours=9).
KstDate(t) ==
    IF t.h + 9 < 24 THEN [y |-> t.y, mo |-> t.mo, d |-> t.d]
    ELSE NextDay(t)

DigitChar(n) == <<"0", "1", "2", "3", "4", "5", "6", "7", "8", "9">>[n + 1]

\* str(n) of a natural number.
RECURSIVE Str(_)
Str(n) == IF n < 10 THEN <<DigitChar(n)>> ELSE Str(n \div 10) \o <<DigitChar(n % 10)>>

\* n written on two digits: {n:02d} and %m, %d.
Pad2(n) == IF n < 10 THEN <<"0">> \o Str(n) ELSE Str(n)

\* strftime("%Y-%m-%d") for a year of four digits.
DateKey(t) == Str(t.y) \o <<"-">> \o Pad2(t.mo) \o <<"-">> \o Pad2(t.d)

\* f"{year}-{month:02d}-".
MonthPrefix(y, mo) == Str(y) \o <<"-">> \o Pad2(mo) \o <<"-">>

\* key.startswith(prefix).
StartsWith(key, prefix) ==
    Len(key) >= Len(prefix) /\ SubSeq(key, 1, Len(prefix)) = prefix

\* title.strip(): without the spaces at both ends.
RECURSIVE Strip(_)
Strip(title) ==
    IF title = <<>> THEN <<>>
    ELSE IF Head(title) = "SP" THEN Strip(Tail(title))
    ELSE IF title[Len(title)] = "SP" THEN Strip(SubSeq(title, 1, Len(title) - 1))
    ELSE title

\* The index of the item of dict r with this key, 0 when there is none.
KeyIndex(r, key) ==
    IF \E i \in 1..Len(r) : r[i].date = key
    THEN CHOOSE i \in 1..Len(r) : r[i].date = key
    ELSE 0

\* r[key], the empty list when the key is absent.
Bucket(r, key) == IF KeyIndex(r, key) = 0 THEN <<>> ELSE r[KeyIndex(r, key)].entries

Titles_of(list) == {list[i].title : i \in 1..Len(list)}

\* Lines 400-401 and 477-478: r with the key set to [] when it is absent.
EnsureKey(r, key) ==
    IF KeyIndex(r, key) = 0 THEN Append(r, [date |-> key, entries |-> <<>>]) ELSE r

\* r[key].append(e), for a key of r.
AppendTo(r, key, e) == [r EXCEPT ![KeyIndex(r, key)].entries = Append(@, e)]

\* The event is skipped by one of the continue statements of lines 376-395.
Skipped(ev, y, mo) ==
    \/ ev.startTime.kind # "utc"
    \/ ~StartsWith(DateKey(KstDate(ev.startTime)), MonthPrefix(y, mo))
    \/ Strip(ev.title) = <<>>

\* Lines 397-412: the entry of an event that is not skipped.
Entry(ev) ==
    [title |-> Strip(ev.title), category |-> classify_event(ev), unitId |-> ev.unitId]

\* The body of the for loop without the title test of line 405.
ParseOne_NoDedup(r, ev, y, mo) ==
    IF Skipped(ev, y, mo) THEN r
    ELSE LET date_key == DateKey(KstDate(ev.startTime))
         IN  AppendTo(EnsureKey(r, date_key), date_key, Entry(ev))

\* Lines 376-412: the body of the for loop of parse_events_to_dict.
ParseOne(r, ev, y, mo) ==
    IF Skipped(ev, y, mo) THEN r
    ELSE LET date_key == DateKey(KstDate(ev.startTime))
             r1 == EnsureKey(r, date_key)
             existing_titles == Titles_of(Bucket(r1, date_key))
         IN  IF Entry(ev).title \in existing_titles THEN r1
             ELSE AppendTo(r1, date_key, Entry(ev))

Missing == [kind |-> "missing", y |-> 0, mo |-> 0, d |-> 0, h |-> 0]
Garbage == [kind |-> "garbage", y |-> 0, mo |-> 0, d |-> 0, h |-> 0]
Utc(y, mo, d, h) == [kind |-> "utc", y |-> y, mo |-> mo, d |-> d, h |-> h]

NoEvent == [startTime |-> Missing, title |-> <<>>, typeId |-> None, unitId |-> None]

\* The month before (y, mo).
PrevMonth(y, mo) == IF mo = 1 THEN <<y - 1, 12>> ELSE <<y, mo - 1>>

\* Start times around month (y, mo): the hours before and after 15:00 UTC,
\* when the KST date changes, on the last day of the month before, on a day
\* inside the month and on the last day of the month.
StartTimes(y, mo) ==
    LET p == PrevMonth(y, mo)
    IN  {Missing, Garbage}
        \cup {Utc(p[1], p[2], DaysInMonth(p[1], p[2]), h) : h \in {14, 15}}
        \cup {Utc(y, mo, 10, h) : h \in {0, 15}}
        \cup {Utc(y, mo, DaysInMonth(y, mo), h) : h \in {14, 15}}

\* Events of a monthly payload for parse_events_to_dict(events, y, mo).
PayloadEvents(y, mo) ==
    [startTime : StartTimes(y, mo),
     title : {<<"Album">>, <<"SP", "Album", "SP">>, <<"Teaser">>, <<"SP">>},
     typeId : {2},
     unitId : {3}]

\* The months (year, month) parse_events_to_dict is called with.
ParseMonths == {<<2023, 2>>, <<2024, 2>>, <<2024, 1>>}

\* Most events in one call of parse_events_to_dict.
MaxEvents == 2

InitParse ==
    /\ \E ym \in ParseMonths : year = ym[1] /\ month = ym[2]
    /\ result = <<>>
    /\ cur = NoEvent
    /\ nparsed = 0
    /\ IdleDecode
    /\ IdleExtract
    /\ IdleClassify
    /\ IdleDriver

\* One pass of the for loop of parse_events_to_dict, on event ev.
ParseEvent ==
    /\ nparsed < MaxEvents
    /\ \E ev \in PayloadEvents(year, month) :
          /\ cur' = ev
          /\ result' = ParseOne(result, ev, year, month)
    /\ nparsed' = nparsed + 1
    /\ UNCHANGED <<year, month, decodeVars, extractVars, classifyVars, driverVars>>

NextParse == ParseEvent

SpecParse == InitParse /\ [][NextParse]_vars

\* The date key the code is to give a start time: the day of the UTC time,
\* or the day after when the UTC hour is 15 or later.
ShiftedDate(t) ==
    IF t.h < 15 THEN <<t.y, t.mo, t.d>>
    ELSE IF t.d < DaysInMonth(t.y, t.mo) THEN <<t.y, t.mo, t.d + 1>>
    ELSE IF t.mo < 12 THEN <<t.y, t.mo + 1, 1>>
    ELSE <<t.y + 1, 1, 1>>

\* The date key of [y, mo, d] as text.
KeyOf(ymd) == Str(ymd[1]) \o <<"-">> \o Pad2(ymd[2]) \o <<"-">> \o Pad2(ymd[3])

\* The keys of the days of month (y, mo).
KeysOfMonth(y, mo) == {KeyOf(<<y, mo, d>>) : d \in 1..DaysInMonth(y, mo)}

Keys(r) == {r[i].date : i \in 1..Len(r)}

\* Event ev is to be retained by parse_events_to_dict(_, y, mo).
Retainable(ev, y, mo) ==
    /\ ev.startTime.kind = "utc"
    /\ ShiftedDate(ev.startTime)[1] = y
    /\ ShiftedDate(ev.startTime)[2] = mo
    /\ Strip(ev.title) # <<>>

\* C5: every date key of the result lies in the month processed; an event
\* is in the result, under the date of its UTC start time plus 9 hours, when
\* that date lies in the month and its title is not blank; an event with a
\* missing or unparseable start time, a blank title or a shifted date in
\* another month leaves the result as it was.
C5_ShiftedDateInMonth ==
    [][ /\ Keys(result') \subseteq KeysOfMonth(year, month)
        /\ (nparsed' = nparsed + 1 /\ Retainable(cur', year, month)) =>
              Strip(cur'.title) \in
                  Titles_of(Bucket(result', KeyOf(ShiftedDate(cur'.startTime))))
        /\ (nparsed' = nparsed + 1 /\ ~Retainable(cur', year, month)) =>
              result' = result ]_vars

\* Reached: a result of month 2 that holds the event of 31 January 15:00 UTC
\* under 1 February, after an event of 29 February 15:00 UTC (1 March in
\* KST) was processed and left out.
C5_Witness ==
    /\ year = 2024 /\ month = 2
    /\ cur.startTime = Utc(2024, 2, 29, 15)
    /\ cur.title = <<"Album">>
    /\ Keys(result) = {KeyOf(<<2024, 2, 1>>)}

(***************************************************************************)
(* scrape_schedule and main: the whole run.  pc is the place of the run:   *)
(*   "start"   before fetch_unit_mapping            (line 452)             *)
(*   "loop"    at the test of the while loop        (line 471)             *)
(*   "parse"   inside parse_events_to_dict, called by fetch_month          *)
(*   "main"    scrape_schedule has returned         (line 572)             *)
(*   "done"    main has returned, the file written                         *)
(*   "crashed" an exception left main                                      *)
(***************************************************************************)
\* What urlopen(), read() and decode() do: return the page, or raise; a
\* timeout while the response is read raises TimeoutError, bytes that are
\* not UTF-8 raise UnicodeDecodeError, and neither is a URLError.
FetchErrors == {"URLError", "HTTPError", "TimeoutError", "UnicodeDecodeError"}

\* Lines 188-190: the exceptions fetch_unit_mapping catches.
CaughtByUnitMapping(e) == e \in {"URLError", "HTTPError"}

\* Lines 437-442: the exceptions fetch_month catches (except Exception).
CaughtByFetchMonth(e) == e \in FetchErrors \cup {"Exception"}

\* Home pages: the (unitId, blipName) matches and the (name, unitId) matches
\* of the first chunk that holds "blipName"; NoChunk when no chunk holds it.
NoChunk == [chunk |-> FALSE, ko |-> <<>>, en |-> <<>>]
HomePages ==
    { NoChunk,
      [chunk |-> TRUE,
       ko |-> <<[uid |-> 3, name |-> "ko3"], [uid |-> 9, name |-> "ko9"]>>,
       en |-> <<[name |-> "en3", uid |-> 3]>>] }

\* Lines 213-215: en_map.
EnMap(en) ==
    [u \in {en[i].uid : i \in 1..Len(en)} |->
        en[CHOOSE i \in 1..Len(en) :
              en[i].uid = u /\ \A j \in (i + 1)..Len(en) : en[j].uid # u].name]

\* Lines 196-230: the mapping built from a home page.
UnitMapOf(page) ==
    IF ~page.chunk THEN <<>>
    ELSE LET ko == page.ko
             en_map == EnMap(page.en)
             last(u) == CHOOSE i \in 1..Len(ko) :
                            ko[i].uid = u /\ \A j \in (i + 1)..Len(ko) : ko[j].uid # u
         IN  [u \in {ko[i].uid : i \in 1..Len(ko)} |->
                [ko |-> ko[last(u)].name,
                 en |-> IF u \in DOMAIN en_map THEN en_map[u] ELSE ko[last(u)].name]]

\* t + timedelta(days=n).
RECURSIVE AddDays(_, _)
AddDays(t, n) ==
    LET last == DaysInMonth(t.y, t.mo)
    IN  IF t.d + n <= last THEN [y |-> t.y, mo |-> t.mo, d |-> t.d + n]
        ELSE CHOOSE r \in {AddDays(first, left) :
                              first \in {NextDay([y |-> t.y, mo |-> t.mo, d |-> last])},
                              left \in {n - (last - t.d) - 1}} : TRUE

\* Lines 456-459: the month before the month of today.
StartMonth(t) == IF t.mo = 1 THEN <<t.y - 1, 12>> ELSE <<t.y, t.mo - 1>>

\* Lines 462-463: the month of today + 365 days.
EndMonth(t) == LET end_date == AddDays(t, 365) IN <<end_date.y, end_date.mo>>

\* (y, mo) <= e, as tuples.
MonthLeq(y, mo, e) == y < e[1] \/ (y = e[1] /\ mo <= e[2])

\* Lines 488-491 with the year left as it is after December.
NextMonth_NoYearCarry(y, mo) == IF mo = 12 THEN <<y, 1>> ELSE <<y, mo + 1>>

\* Lines 488-491: the next month.
NextMonth(y, mo) == IF mo = 12 THEN <<y + 1, 1>> ELSE <<y, mo + 1>>

\* Lines 479-483: the entries of event_list appended to bucket key of all,
\* those with a title already in the bucket left out.
RECURSIVE MergeList(_, _, _)
MergeList(all, key, event_list) ==
    IF event_list = <<>> THEN all
    ELSE LET e == Head(event_list)
             existing_titles == Titles_of(Bucket(all, key))
         IN  MergeList(IF e.title \notin existing_titles THEN AppendTo(all, key, e) ELSE all,
                       key, Tail(event_list))

\* Lines 476-483: the items of month_events merged into all_events.
RECURSIVE Merge(_, _)
Merge(all, month_events) ==
    IF month_events = <<>> THEN all
    ELSE LET item == Head(month_events)
         IN  Merge(MergeList(EnsureKey(all, item.date), item.date, item.entries),
                   Tail(month_events))

\* The place of a character of a date key in the order of characters.
CharRank(c) == IF c = "-" THEN 0 ELSE 1 + CHOOSE n \in 0..9 : DigitChar(n) = c

\* a < b for two strings.
RECURSIVE StrLess(_, _)
StrLess(a, b) ==
    IF b = <<>> THEN FALSE
    ELSE IF a = <<>> THEN TRUE
    ELSE IF Head(a) # Head(b) THEN CharRank(Head(a)) < CharRank(Head(b))
    ELSE StrLess(Tail(a), Tail(b))

\* Line 497: dict(sorted(all_events.items())).  The keys of a dict differ,
\* so the item at place i is the one with i - 1 smaller keys.
SortedItems(all) ==
    [i \in 1..Len(all) |->
        all[CHOOSE j \in 1..Len(all) :
               Cardinality({k \in 1..Len(all) : StrLess(all[k].date, all[j].date)}) = i - 1]]

RECURSIVE SumLen(_)
SumLen(items) == IF items = <<>> THEN 0 ELSE Len(Head(items).entries) + SumLen(Tail(items))

\* Lines 503-508: used_unit_ids.
UsedUnitIds(items) ==
    UNION {{items[i].entries[j].unitId : j \in 1..Len(items[i].entries)} :
              i \in 1..Len(items)} \ {None}

\* sorted(ids), ascending.
RECURSIVE SortedIds(_)
SortedIds(ids) ==
    IF ids = {} THEN <<>>
    ELSE LET least == CHOOSE u \in ids : \A v \in ids : u <= v
         IN  <<least>> \o SortedIds(ids \ {least})

OtherGroup == [ko |-> "gita geurup", en |-> "Other"]

\* The units table with every resolved unit kept, referenced or not.
Units_NoPruning(items, map) ==
    LET ids == SortedIds(UsedUnitIds(items) \cup DOMAIN map)
    IN  [n \in 1..Len(ids) |->
            [key |-> Str(ids[n]),
             names |-> IF ids[n] \in DOMAIN map THEN map[ids[n]] ELSE OtherGroup]]

\* Lines 511-518: the units table, as the items of the dict in order.
Units(items, map) ==
    LET ids == SortedIds(UsedUnitIds(items))
    IN  [n \in 1..Len(ids) |->
            [key |-> Str(ids[n]),
             names |-> IF ids[n] \in DOMAIN map THEN map[ids[n]] ELSE OtherGroup]]

\* Lines 497-542: the document scrape_schedule returns.
Document(all, map, months) ==
    LET sorted_events == SortedItems(all)
        units == Units(sorted_events, map)
    IN  [units |-> units,
         events |-> sorted_events,
         stats |-> [months_scraped |-> months,
                    days_with_events |-> Len(sorted_events),
                    total_events |-> SumLen(sorted_events),
                    total_units |-> Len(units)]]

NoDocument ==
    [units |-> <<>>, events |-> <<>>,
     stats |-> [months_scraped |-> 0, days_with_events |-> 0,
                total_events |-> 0, total_units |-> 0]]

\* Run dates: 1 January of a leap year (today + 365 days is 31 December of
\* the same year) and a day in the middle of a year.
Todays == {[y |-> 2024, mo |-> 1, d |-> 1], [y |-> 2023, mo |-> 6, d |-> 15]}

\* The leading months of the window whose page can carry events.
MaxEventMonths == 2

\* Most events the pages of one run carry.
MaxRunEvents == 2

\* The pages of month (y, mo) carry events only in the first MaxEventMonths
\* months of the window.
CanCarryEvents(y, mo) == Len(attempted) < MaxEventMonths

\* Events of the page of month (y, mo): start times that fall on the first
\* day of the month in KST, or in the month after.
PageEvents(y, mo) ==
    LET p == PrevMonth(y, mo)
        starts == {Utc(p[1], p[2], DaysInMonth(p[1], p[2]), 15),
                   Utc(y, mo, 1, 0),
                   Utc(y, mo, DaysInMonth(y, mo), 15)}
        ids == {<<2, None>>, <<2, 3>>, <<4, 7>>}
    IN  {[startTime |-> st, title |-> ti, typeId |-> id[1], unitId |-> id[2]] :
            st \in starts, ti \in {<<"Teaser">>, <<"SP", "Teaser">>, <<"Album">>},
            id \in ids}

InitDriver ==
    /\ pc = "start"
    /\ today \in Todays
    /\ end_year = 0
    /\ end_month = 0
    /\ unit_map = <<>>
    /\ all_events = <<>>
    /\ total_months = 0
    /\ attempted = <<>>
    /\ run_events = 0
    /\ data = NoDocument
    /\ written = NoDocument
    /\ year = 0
    /\ month = 0
    /\ result = <<>>
    /\ cur = NoEvent
    /\ nparsed = 0
    /\ IdleDecode
    /\ IdleExtract
    /\ IdleClassify

unchangedByDriver == <<decodeVars, extractVars, classifyVars>>

\* Lines 452-470: fetch_unit_mapping returns (a mapping, or {} after a caught
\* error) and the window is set.
ResolveUnits ==
    /\ pc = "start"
    /\ \/ \E page \in HomePages : unit_map' = UnitMapOf(page)
       \/ \E e \in FetchErrors : CaughtByUnitMapping(e) /\ unit_map' = <<>>
    /\ year' = StartMonth(today)[1]
    /\ month' = StartMonth(today)[2]
    /\ end_year' = EndMonth(today)[1]
    /\ end_month' = EndMonth(today)[2]
    /\ pc' = "loop"
    /\ UNCHANGED <<today, all_events, total_months, attempted, run_events, data, written,
                   result, cur, nparsed, unchangedByDriver>>

\* Line 452: fetch_unit_mapping raises an exception it does not catch; neither
\* scrape_schedule nor main catches it.
ResolveUnitsRaises ==
    /\ pc = "start"
    /\ \E e \in FetchErrors : ~CaughtByUnitMapping(e)
    /\ pc' = "crashed"
    /\ UNCHANGED <<today, end_year, end_month, unit_map, all_events, total_months, attempted, run_events, data,
                   written, parseVars, unchangedByDriver>>

\* Lines 472 and 485-491: the month is counted and the next month is taken.
Advance ==
    /\ total_months' = total_months + 1
    /\ attempted' = Append(attempted, <<year, month>>)
    /\ year' = NextMonth(year, month)[1]
    /\ month' = NextMonth(year, month)[2]
    /\ pc' = "loop"

\* Lines 426-427 and 437-442: the request of fetch_month raises.  A caught
\* exception makes fetch_month return {} and the loop goes on.
FetchMonthFails ==
    /\ pc = "loop"
    /\ MonthLeq(year, month, <<end_year, end_month>>)
    /\ \E e \in FetchErrors :
          IF CaughtByFetchMonth(e)
          THEN Advance
          ELSE /\ pc' = "crashed"
               /\ UNCHANGED <<total_months, attempted, year, month>>
    /\ UNCHANGED <<today, end_year, end_month, unit_map, all_events, run_events, data, written,
                   result, cur, nparsed, unchangedByDriver>>

\* Lines 431-433: extract_rsc_events returns no event; fetch_month returns {}.
FetchMonthNoEvents ==
    /\ pc = "loop"
    /\ MonthLeq(year, month, <<end_year, end_month>>)
    /\ Advance
    /\ UNCHANGED <<today, end_year, end_month, unit_map, all_events, run_events, data, written,
                   result, cur, nparsed, unchangedByDriver>>

\* Lines 426-435: the page holds events; parse_events_to_dict is entered.
FetchMonthEvents ==
    /\ pc = "loop"
    /\ MonthLeq(year, month, <<end_year, end_month>>)
    /\ CanCarryEvents(year, month)
    /\ run_events < MaxRunEvents
    /\ pc' = "parse"
    /\ result' = <<>>
    /\ nparsed' = 0
    /\ cur' = NoEvent
    /\ UNCHANGED <<today, end_year, end_month, unit_map, all_events, total_months, attempted, run_events, data,
                   written, year, month, unchangedByDriver>>

\* One pass of the for loop of parse_events_to_dict on an event of the page.
ParsePageEvent ==
    /\ pc = "parse"
    /\ nparsed < MaxEvents
    /\ run_events < MaxRunEvents
    /\ \E ev \in PageEvents(year, month) :
          /\ cur' = ev
          /\ result' = ParseOne(result, ev, year, month)
    /\ nparsed' = nparsed + 1
    /\ run_events' = run_events + 1
    /\ UNCHANGED <<pc, today, end_year, end_month, unit_map, all_events, total_months, attempted, data, written,
                   year, month, unchangedByDriver>>

\* Lines 440-442: an exception inside extract_rsc_events or
\* parse_events_to_dict; what was parsed of the month is lost.
ParseRaises ==
    /\ pc = "parse"
    /\ IF CaughtByFetchMonth("Exception")
       THEN Advance
       ELSE /\ pc' = "crashed"
            /\ UNCHANGED <<total_months, attempted, year, month>>
    /\ result' = <<>>
    /\ cur' = NoEvent
    /\ nparsed' = 0
    /\ UNCHANGED <<today, end_year, end_month, unit_map, all_events, run_events, data, written,
                   unchangedByDriver>>

\* Lines 435 and 476-491: parse_events_to_dict returns and the result is
\* merged into all_events; the locals of the call are gone.
FetchMonthReturns ==
    /\ pc = "parse"
    /\ nparsed >= 1
    /\ all_events' = Merge(all_events, result)
    /\ Advance
    /\ result' = <<>>
    /\ cur' = NoEvent
    /\ nparsed' = 0
    /\ UNCHANGED <<today, end_year, end_month, unit_map, run_events, data, written, unchangedByDriver>>

\* Lines 471 and 496-544: the loop ends and scrape_schedule returns the
\* document.
Finalize ==
    /\ pc = "loop"
    /\ ~MonthLeq(year, month, <<end_year, end_month>>)
    /\ data' = Document(all_events, unit_map, total_months)
    /\ pc' = "main"
    /\ UNCHANGED <<today, end_year, end_month, unit_map, all_events, total_months, attempted, run_events, written,
                   parseVars, unchangedByDriver>>

\* Lines 574-580: both branches of main call save_json with the document.
Main ==
    /\ pc = "main"
    /\ written' = data
    /\ pc' = "done"
    /\ UNCHANGED <<today, end_year, end_month, unit_map, all_events, total_months, attempted, run_events, data,
                   parseVars, unchangedByDriver>>

NextDriver ==
    \/ ResolveUnits
    \/ ResolveUnitsRaises
    \/ FetchMonthFails
    \/ FetchMonthNoEvents
    \/ FetchMonthEvents
    \/ ParsePageEvent
    \/ ParseRaises
    \/ FetchMonthReturns
    \/ Finalize
    \/ Main

SpecDriver == InitDriver /\ [][NextDriver]_vars

\* No two entries of a bucket of dict r have the same title.
NoDuplicateTitles(r) ==
    \A i \in 1..Len(r) : \A j, k \in 1..Len(r[i].entries) :
        r[i].entries[j].title = r[i].entries[k].title => j = k

\* Every bucket of r is still in r2, at its place, with its entries in front.
BucketsKept(r, r2) ==
    /\ Len(r) <= Len(r2)
    /\ \A i \in 1..Len(r) :
          /\ r2[i].date = r[i].date
          /\ Len(r[i].entries) <= Len(r2[i].entries)
          /\ SubSeq(r2[i].entries, 1, Len(r[i].entries)) = r[i].entries

Entries(r) == UNION {{r[i].entries[j] : j \in 1..Len(r[i].entries)} : i \in 1..Len(r)}

\* C4: no bucket of a month's result, of the aggregate or of the document
\* ever holds two entries with the same trimmed title; an entry once in a
\* bucket stays there, at its place, with its category and unitId, so the
\* first event with a title is the one kept and the order is first-seen;
\* an event with a new title on its date is appended.
C4_DedupKeepsFirst ==
    [][ /\ NoDuplicateTitles(result')
        /\ NoDuplicateTitles(all_events')
        /\ NoDuplicateTitles(data'.events)
        /\ (pc = "parse" /\ pc' = "parse") => BucketsKept(result, result')
        /\ BucketsKept(all_events, all_events')
        /\ FetchMonthReturns =>
              Entries(all_events') = Entries(all_events) \cup Entries(result)
        /\ (pc = "parse" /\ pc' = "parse" /\ Retainable(cur', year, month)) =>
              LET b == Bucket(result, KeyOf(ShiftedDate(cur'.startTime)))
                  b2 == Bucket(result', KeyOf(ShiftedDate(cur'.startTime)))
              IN  IF Strip(cur'.title) \in Titles_of(b) THEN b2 = b
                  ELSE b2 = Append(b, [title |-> Strip(cur'.title),
                                       category |-> classify_event(cur'),
                                       unitId |-> cur'.unitId])
      ]_vars

\* Reached: a second event with the title of an entry of its date, with
\* another category and unitId, was processed and the bucket still holds the
\* first entry alone.
C4_Witness ==
    /\ pc = "parse"
    /\ nparsed = 2
    /\ Retainable(cur, year, month)
    /\ LET b == Bucket(result, KeyOf(ShiftedDate(cur.startTime)))
       IN  /\ Len(b) = 1
           /\ b[1].title = Strip(cur.title)
           /\ b[1].unitId # cur.unitId
           /\ b[1].category # classify_event(cur)

\* C7: no network call lets an exception reach the driver: after a timeout
\* or a transport error fetch_unit_mapping and fetch_month return an empty
\* result and the run goes on.
C7_NetworkCallsNeverRaise == pc # "crashed"

\* The months from the month before the run date through the month of the
\* run date + 365 days, in order.
MonthOrdinal(y, mo) == 12 * y + (mo - 1)
ExpectedWindow(t) ==
    LET first == MonthOrdinal(t.y, t.mo) - 1
        last == MonthOrdinal(AddDays(t, 365).y, AddDays(t, 365).mo)
    IN  [i \in 1..(last - first + 1) |->
            <<(first + i - 1) \div 12, ((first + i - 1) % 12) + 1>>]
Window == [t \in Todays |-> ExpectedWindow(t)]

\* An upper bound on the steps a run still has to take: what is left of the
\* month being parsed, the months of the window not yet attempted, the
\* building of the document and the write.
StepsLeft ==
    LET perMonth == MaxEvents + 3
        monthsLeft == Len(Window[today]) - Len(attempted)
    IN  CASE pc = "loop" -> monthsLeft * perMonth + 2
          [] pc = "parse" -> monthsLeft * perMonth + 1 - nparsed
          [] pc = "main" -> 1
          [] OTHER -> 0

\* C8: whatever each monthly fetch does, the months attempted are at every
\* moment the first months of the window, in order, each once and each
\* counted; a month that failed or had no events leaves the aggregate as it
\* was and the loop goes on; once in the loop the run never aborts and
\* every step brings the end nearer, so the loop ends with every month of
\* the window attempted, and the run then builds the document and writes
\* it, with or without events.
C8_EveryMonthOnceThenWrite ==
    /\ [](pc \in {"loop", "parse", "main", "done"} =>
            /\ Len(attempted) <= Len(Window[today])
            /\ attempted = SubSeq(Window[today], 1, Len(attempted))
            /\ total_months = Len(attempted)
            /\ pc \in {"main", "done"} =>
                  /\ attempted = Window[today]
                  /\ data.stats.months_scraped = Len(Window[today])
            /\ pc = "done" => written = data)
    /\ [][(FetchMonthFails \/ FetchMonthNoEvents \/ ParseRaises) =>
            /\ all_events' = all_events
            /\ pc' = "loop"
            /\ total_months' = total_months + 1]_vars
    /\ [][(pc \in {"loop", "parse", "main"}) =>
            /\ pc' \in {"loop", "parse", "main", "done"}
            /\ 0 <= StepsLeft'
            /\ StepsLeft' < StepsLeft]_vars

\* Reached: a finished run of 14 months, none of which gave an event, and
\* the file written.
C8_Witness ==
    /\ pc = "done"
    /\ Len(attempted) = 14
    /\ all_events = <<>>
    /\ written.stats.months_scraped = 14
    /\ written.stats.total_events = 0

\* The unit ids the events of the document refer to.
ReferencedIds(doc) ==
    {u \in 1..9 : \E i \in 1..Len(doc.events) : \E j \in 1..Len(doc.events[i].entries) :
                      doc.events[i].entries[j].unitId = u}

\* C9: the units table of the document holds exactly the unit ids the
\* retained events refer to, each once, with the resolved names or, for an id
\* that was not resolved, the placeholder names; total_units is the size of
\* the table, total_events the sum of the bucket sizes, days_with_events the
\* number of buckets, and no bucket is empty.
C9_UnitsAreTheReferencedOnes ==
    pc \in {"main", "done"} =>
        /\ Entries(data.events) = Entries(all_events)
        /\ {data.units[n].key : n \in 1..Len(data.units)}
              = {Str(u) : u \in ReferencedIds(data)}
        /\ Len(data.units) = Cardinality(ReferencedIds(data))
        /\ \A n \in 1..Len(data.units) : \A u \in ReferencedIds(data) :
              data.units[n].key = Str(u) =>
                  data.units[n].names =
                      IF u \in DOMAIN unit_map THEN unit_map[u] ELSE OtherGroup
        /\ data.stats.total_units = Len(data.units)
        /\ data.stats.total_events = Cardinality(
              {<<i, j>> \in (1..Len(data.events)) \X (1..MaxRunEvents) :
                  j <= Len(data.events[i].entries)})
        /\ data.stats.days_with_events = Len(data.events)
        /\ \A i \in 1..Len(data.events) : Len(data.events[i].entries) >= 1

\* Reached: a written document whose events refer to unit 3, resolved, and
\* to unit 7, not resolved, while unit 9 was resolved and no event refers to
\* it.
C9_Witness ==
    /\ pc = "done"
    /\ DOMAIN unit_map = {3, 9}
    /\ Len(written.units) = 2
    /\ written.units[1] = [key |-> <<"3">>, names |-> [ko |-> "ko3", en |-> "en3"]]
    /\ written.units[2] = [key |-> <<"7">>, names |-> OtherGroup]
    /\ written.stats.total_units = 2

====
